---- MODULE Spec2Model ----
(***************************************************************************)
(* Model of src/src/film.rs: the generic pixel buffer Frame<T> (new,       *)
(* for_each_pixel, set_pixels, to_bmp), inv_lerp, and the Depthmap and     *)
(* Heatmap conversions to a bmp::Image.                                    *)
(*                                                                         *)
(* Two specifications share the state:                                     *)
(*   Spec     a frame is constructed, filled any number of times by        *)
(*            set_pixels (rayon's fork-join over disjoint sub-slices) and   *)
(*            enumerated by for_each_pixel;                                 *)
(*   SpecBmp  a Depthmap or Heatmap with arbitrary contents (finite depths  *)
(*            or the infinity sentinel; counts) is converted by to_bmp, in  *)
(*            a debug or a release build.                                   *)
(*                                                                         *)
(* Linear indices are 0-based as in the source; buffer[i + 1] is the slot   *)
(* of index i.  An Option is a set with at most one element.                *)
(* u32(i).unwrap() cannot fail for the buffers of this model (they hold     *)
(* far fewer than 2^32 pixels), so the conversion is the identity here.     *)
(***************************************************************************)
EXTENDS Integers, Sequences, FiniteSets, TLC

\* ---- bounds of the model ----
MaxDim == 3
MaxPixels == 4
MaxRasterPixels == 6
MaxValue == 2
NumWorkers == 2
MaxDepth == 3
MaxHeat == 2

VARIABLES width, height, buffer, kind, pc, fresh, value, gen, tasks, claimed,
          writeCount, writers, genCalls, pos, visitor, visits,
          debug, bounds, img, setCalls, lerpCalls, err

vars == <<width, height, buffer, kind, pc, fresh, value, gen, tasks, claimed,
          writeCount, writers, genCalls, pos, visitor, visits,
          debug, bounds, img, setCalls, lerpCalls, err>>

\* width, height, buffer: the fields of Frame<T>; kind: the wrapper (and so T);
\* pc: the position of the single caller; value/fresh: the fill value given to
\* Frame::new and whether the frame still holds it; gen..genCalls: one
\* set_pixels call (generator, unclaimed sub-slices, each worker's sub-slice,
\* and per index the writes, the writing workers and the generator calls);
\* pos, visitor, visits: one for_each_pixel call (next linear index, the
\* closure passed, and what a logging closure received); debug: whether
\* debug assertions are compiled in; bounds, img, setCalls, lerpCalls, err:
\* one to_bmp call (the bounds pair, the bmp::Image, the calls made to
\* set_pixel and inv_lerp, and the panic that ended it).
frameVars == <<width, height, buffer, kind, value>>
synthVars == <<gen, tasks, claimed, writeCount, writers, genCalls>>
bmpVars == <<debug, bounds, img, setCalls, lerpCalls, err>>

None == {}
Some(x) == {x}
TheOne(s) == CHOOSE x \in s : TRUE

Workers == 1..NumWorkers
Dims == 0..MaxDim
Shapes == {s \in Dims \X Dims : s[1] * s[2] <= MaxPixels}
RasterShapes == {s \in Dims \X Dims : s[1] * s[2] <= MaxRasterPixels}

\* values of a Frame<u32> in Spec, and the generators offered to set_pixels:
\* g = <<a, b, c>> stands for the pure function (x, y) -> (a*x + b*y + c) % m
PixelValues == 0..MaxValue
Generators == (0..1) \X (0..1) \X (0..1)
Gen(g, x, y) == (g[1] * x + g[2] * y + g[3]) % (MaxValue + 1)

Repeat(v, n) == [k \in 1..n |-> v]

\* ---- the index mapping, once per place the source computes it ----
\* mutant: x and y exchanged in the enumeration
ForEachPixelXYSwapped(i, h) == <<i % h, i \div h>>
ForEachPixelXY(i, h) == <<i \div h, i % h>>
\* mutant: x and y exchanged in the synthesis
SetPixelsXYSwapped(i, h) == <<i % h, i \div h>>
SetPixelsXY(i, h) == <<i \div h, i % h>>

\* ---- Frame::new ----
New(w, h, v) ==
    /\ pc = "start"
    /\ width' = w
    /\ height' = h
    /\ buffer' = Repeat(v, w * h)
    /\ value' = v
    /\ fresh' = TRUE
    /\ pc' = "idle"
    /\ UNCHANGED <<kind, synthVars, pos, visitor, visits, bmpVars>>

\* ---- Frame::set_pixels: rayon par_iter_mut().enumerate().for_each ----
SetPixelsCall(g) ==
    /\ pc = "idle"
    /\ pc' = "set_pixels"
    /\ gen' = Some(g)
    /\ tasks' = IF Len(buffer) = 0 THEN {} ELSE {<<0, Len(buffer)>>}
    /\ claimed' = [w \in Workers |-> None]
    /\ writeCount' = Repeat(0, Len(buffer))
    /\ writers' = Repeat({}, Len(buffer))
    /\ genCalls' = Repeat(0, Len(buffer))
    /\ fresh' = FALSE
    /\ UNCHANGED <<frameVars, pos, visitor, visits, bmpVars>>

\* the producer of a sub-slice [lo, hi) is split into two disjoint halves
\* mutant: the two halves share the slot before mid
SplitAtOverlapping(r) == LET mid == r[1] + (r[2] - r[1]) \div 2
                         IN {<<r[1], mid>>, <<mid - 1, r[2]>>}
SplitAt(r) == LET mid == r[1] + (r[2] - r[1]) \div 2
              IN {<<r[1], mid>>, <<mid, r[2]>>}

Split(r) ==
    /\ pc = "set_pixels"
    /\ r \in tasks
    /\ r[2] - r[1] >= 2
    /\ tasks' = (tasks \ {r}) \cup SplitAt(r)
    /\ UNCHANGED <<frameVars, pc, fresh, gen, claimed, writeCount, writers,
                   genCalls, pos, visitor, visits, bmpVars>>

\* an idle worker takes (steals) a sub-slice
Claim(w, r) ==
    /\ pc = "set_pixels"
    /\ claimed[w] = None
    /\ r \in tasks
    /\ tasks' = tasks \ {r}
    /\ claimed' = [claimed EXCEPT ![w] = Some(r)]
    /\ UNCHANGED <<frameVars, pc, fresh, gen, writeCount, writers,
                   genCalls, pos, visitor, visits, bmpVars>>

\* the closure of for_each on the next item (i, px) of the worker's sub-slice
WritePixel(w) ==
    /\ pc = "set_pixels"
    /\ claimed[w] # None
    /\ LET r == TheOne(claimed[w])
           i == r[1]
           xy == SetPixelsXY(i, height)
       IN /\ buffer' = [buffer EXCEPT ![i + 1] = Gen(TheOne(gen), xy[1], xy[2])]
          /\ genCalls' = [genCalls EXCEPT ![i + 1] = @ + 1]
          /\ writeCount' = [writeCount EXCEPT ![i + 1] = @ + 1]
          /\ writers' = [writers EXCEPT ![i + 1] = @ \cup {w}]
          /\ claimed' = [claimed EXCEPT ![w] =
                            IF i + 1 < r[2] THEN Some(<<i + 1, r[2]>>) ELSE None]
    /\ UNCHANGED <<width, height, kind, value, pc, fresh, gen, tasks,
                   pos, visitor, visits, bmpVars>>

\* the join: for_each returns once no sub-slice is left or in progress
SetPixelsReturn ==
    /\ pc = "set_pixels"
    /\ tasks = {}
    /\ \A w \in Workers : claimed[w] = None
    /\ pc' = "idle"
    /\ UNCHANGED <<frameVars, fresh, synthVars, pos, visitor, visits, bmpVars>>


\* ---- the scalars of the two wrappers ----
\* f32 depths are small integers (exact in f32 and f64); f32::INFINITY is the
\* value that compares greater than every finite depth
INFINITY == MaxDepth + 1
DepthValues == (1..MaxDepth) \cup {INFINITY}
HeatValues == {10 * k : k \in 0..MaxHeat}
ValuesOf(k) == IF k = "Depthmap" THEN DepthValues ELSE HeatValues

\* ---- bmp::Image and bmp::Pixel (external raster contract) ----
Pixel(r, g, b) == [r |-> r, g |-> g, b |-> b]
BLUE == Pixel(0, 0, 255)
BLACK == Pixel(0, 0, 0)
Coords(w, h) == (0..(w - 1)) \X (0..(h - 1))
ImageNew(w, h) == [width |-> w, height |-> h, data |-> [c \in Coords(w, h) |-> BLACK]]

\* ---- itertools minmax / minmax_by_key: a MinMaxResult ----
Range(s) == {s[k] : k \in 1..Len(s)}
SeqMin(s) == CHOOSE m \in Range(s) : \A v \in Range(s) : m <= v
SeqMax(s) == CHOOSE m \in Range(s) : \A v \in Range(s) : v <= m
MinMax(s) ==
    IF Len(s) = 0 THEN [tag |-> "NoElements", min |-> 0, max |-> 0]
    ELSE IF Len(s) = 1 THEN [tag |-> "OneElement", min |-> s[1], max |-> s[1]]
    ELSE [tag |-> "MinMax", min |-> SeqMin(s), max |-> SeqMax(s)]

\* the match on the MinMaxResult: a bounds pair, or None for the panic arm
\* mutant: a single element is accepted as both bounds
MatchMinMaxOneElement(r) == IF r.tag # "NoElements" THEN Some(<<r.min, r.max>>) ELSE None
MatchMinMax(r) == IF r.tag = "MinMax" THEN Some(<<r.min, r.max>>) ELSE None

\* ---- inv_lerp ----
\* t is the quotient num/den of two f64 values; den = 0 is 0.0/0.0 = NaN,
\* since the assertion leaves x = x0 = x1 as the only case with x1 = x0
InvLerp(x, x0, x1, dbg) ==
    IF ~(x0 <= x /\ x <= x1) THEN [err |-> "precondition", num |-> 0, den |-> 0]
    ELSE LET num == x - x0
             den == x1 - x0
         IN IF dbg /\ (den = 0 \/ ~(0 <= num /\ num <= den))
            THEN [err |-> "postcondition", num |-> num, den |-> den]
            ELSE [err |-> "none", num |-> num, den |-> den]

\* f64::round of n/d (d > 0): to the nearest integer, halves away from zero.
\* The f64 quotient and product are computed here exactly: with the small
\* differences of this model a product lies on a half only when t = 1/2,
\* which f64 represents exactly, and otherwise lies far further from a half
\* than the rounding error of the two operations.
Round(n, d) == IF n >= 0 THEN (2 * n + d) \div (2 * d)
               ELSE 0 - ((2 * (0 - n) + d) \div (2 * d))

\* cast::u8(f64).unwrap(): None when the value is NaN or outside 0..=255
CastU8(isNaN, v) == IF isNaN \/ v < 0 \/ v > 255 THEN None ELSE Some(v)

\* ---- the colour closures ----
Ok(px) == [err |-> "none", px |-> px]
Panic(e) == [err |-> e, px |-> BLACK]

DepthScanKeeps(x) == x # INFINITY
\* mutant: the sentinel test of the colour closure is lost
DepthIsMissNever(depth) == FALSE
DepthIsMiss(depth) == depth = INFINITY
\* mutant: the grey level is not inverted
DepthLevelNotInverted(t) == CastU8(t.den = 0, IF t.den = 0 THEN 0 ELSE Round(t.num * 255, t.den))
DepthLevel(t) == CastU8(t.den = 0, IF t.den = 0 THEN 0 ELSE Round((t.den - t.num) * 255, t.den))
\* mutant: the level is truncated instead of rounded
HeatLevelTruncated(t) == CastU8(t.den = 0, IF t.den = 0 THEN 0 ELSE (t.num * 255) \div t.den)
HeatLevel(t) == CastU8(t.den = 0, IF t.den = 0 THEN 0 ELSE Round(t.num * 255, t.den))

DepthColour(depth, b, dbg) ==
    IF DepthIsMiss(depth) THEN Ok(BLUE)
    ELSE LET t == InvLerp(depth, b[1], b[2], dbg)
         IN IF t.err # "none" THEN Panic(t.err)
            ELSE IF DepthLevel(t) = None THEN Panic("cast")
            ELSE LET s == TheOne(DepthLevel(t)) IN Ok(Pixel(s, s, s))

HeatColour(heat, b, dbg) ==
    LET t == InvLerp(heat, b[1], b[2], dbg)
    IN IF t.err # "none" THEN Panic(t.err)
       ELSE IF HeatLevel(t) = None THEN Panic("cast")
       ELSE Ok(Pixel(TheOne(HeatLevel(t)), 0, 0))

Colour(k, v, b, dbg) == IF k = "Depthmap" THEN DepthColour(v, b, dbg) ELSE HeatColour(v, b, dbg)
UsesLerp(k, v) == k = "Heatmap" \/ ~DepthIsMiss(v)

\* ---- <Depthmap as ToBmp>::to_bmp and <Heatmap as ToBmp>::to_bmp: bound scan ----
ScanStep(b) ==
    /\ bounds' = b
    /\ pc' = IF b = None THEN "panicked" ELSE "to_bmp"
    /\ err' = IF b = None THEN "degenerate" ELSE "none"
    /\ img' = None
    /\ setCalls' = <<>>
    /\ lerpCalls' = {}
    /\ UNCHANGED <<frameVars, fresh, synthVars, pos, visitor, visits, debug>>

DepthmapToBmp ==
    /\ pc = "idle"
    /\ kind = "Depthmap"
    /\ ScanStep(MatchMinMax(MinMax(SelectSeq(buffer, DepthScanKeeps))))

HeatmapToBmp ==
    /\ pc = "idle"
    /\ kind = "Heatmap"
    /\ ScanStep(MatchMinMax(MinMax(buffer)))

\* ---- Frame::to_bmp: the image is created, then for_each_pixel runs ----
FrameToBmp ==
    /\ pc = "to_bmp"
    /\ img' = Some(ImageNew(width, height))
    /\ pc' = "for_each_pixel"
    /\ pos' = 0
    /\ visitor' = "set_pixel"
    /\ UNCHANGED <<frameVars, fresh, synthVars, visits, debug, bounds,
                   setCalls, lerpCalls, err>>

\* ---- Frame::for_each_pixel ----
ForEachCall ==
    /\ pc = "idle"
    /\ pc' = "for_each_pixel"
    /\ pos' = 0
    /\ visitor' = "log"
    /\ visits' = <<>>
    /\ UNCHANGED <<frameVars, fresh, synthVars, bmpVars>>

\* the closure of Frame::to_bmp on (x, y, px): f(px), then img.set_pixel
VisitSetPixel(x, y, px) ==
    LET c == Colour(kind, px, TheOne(bounds), debug)
        image == TheOne(img)
    IN /\ lerpCalls' = IF UsesLerp(kind, px)
                       THEN lerpCalls \cup {<<px, TheOne(bounds)[1], TheOne(bounds)[2]>>}
                       ELSE lerpCalls
       /\ IF c.err # "none"
          THEN /\ pc' = "panicked"
               /\ err' = c.err
               /\ UNCHANGED <<img, setCalls, pos>>
          ELSE /\ setCalls' = Append(setCalls, <<x, y, c.px>>)
               /\ IF <<x, y>> \in Coords(image.width, image.height)
                  THEN /\ img' = Some([image EXCEPT !.data[<<x, y>>] = c.px])
                       /\ pos' = pos + 1
                       /\ UNCHANGED <<pc, err>>
                  ELSE /\ pc' = "panicked"
                       /\ err' = "out_of_bounds"
                       /\ UNCHANGED <<img, pos>>
       /\ UNCHANGED <<frameVars, fresh, synthVars, visitor, visits, debug, bounds>>

VisitLog(x, y, px) ==
    /\ visits' = Append(visits, <<x, y, px>>)
    /\ pos' = pos + 1
    /\ UNCHANGED <<frameVars, pc, fresh, synthVars, visitor, bmpVars>>

ForEachStep ==
    /\ pc = "for_each_pixel"
    /\ pos < Len(buffer)
    /\ LET xy == ForEachPixelXY(pos, height)
           px == buffer[pos + 1]
       IN IF visitor = "log" THEN VisitLog(xy[1], xy[2], px)
          ELSE VisitSetPixel(xy[1], xy[2], px)

ForEachReturn ==
    /\ pc = "for_each_pixel"
    /\ pos = Len(buffer)
    /\ pc' = IF visitor = "log" THEN "idle" ELSE "returned"
    /\ visits' = <<>>
    /\ UNCHANGED <<frameVars, fresh, synthVars, pos, visitor, bmpVars>>

\* ---- the two specifications ----
NoSynth ==
    /\ gen = None
    /\ tasks = {}
    /\ claimed = [w \in Workers |-> None]
    /\ writeCount = <<>>
    /\ writers = <<>>
    /\ genCalls = <<>>

NoBmp ==
    /\ bounds = None
    /\ img = None
    /\ setCalls = <<>>
    /\ lerpCalls = {}
    /\ err = "none"

Init ==
    /\ pc = "start"
    /\ kind = "Frame"
    /\ width = 0
    /\ height = 0
    /\ buffer = <<>>
    /\ value = 0
    /\ fresh = FALSE
    /\ pos = 0
    /\ visitor = "none"
    /\ visits = <<>>
    /\ debug = FALSE
    /\ NoSynth
    /\ NoBmp

Next ==
    \/ \E s \in Shapes, v \in PixelValues : New(s[1], s[2], v)
    \/ \E g \in Generators : SetPixelsCall(g)
    \/ \E r \in tasks : Split(r)
    \/ \E w \in Workers, r \in tasks : Claim(w, r)
    \/ \E w \in Workers : WritePixel(w)
    \/ SetPixelsReturn
    \/ ForEachCall
    \/ ForEachStep
    \/ ForEachReturn

Spec == Init /\ [][Next]_vars

InitBmp ==
    /\ pc = "idle"
    /\ kind \in {"Depthmap", "Heatmap"}
    /\ \E s \in RasterShapes :
          /\ width = s[1]
          /\ height = s[2]
          /\ buffer \in [1..(s[1] * s[2]) -> ValuesOf(kind)]
    /\ value = 0
    /\ fresh = FALSE
    /\ pos = 0
    /\ visitor = "none"
    /\ visits = <<>>
    /\ debug \in BOOLEAN
    /\ NoSynth
    /\ NoBmp

NextBmp ==
    \/ DepthmapToBmp
    \/ HeatmapToBmp
    \/ FrameToBmp
    \/ ForEachStep
    \/ ForEachReturn

SpecBmp == InitBmp /\ [][NextBmp]_vars


\* ======================= properties =======================
Enumerating == pc = "for_each_pixel" /\ visitor = "log"
VisitedCoords == {<<visits[k][1], visits[k][2]>> : k \in 1..Len(visits)}
TwoWorkersWrote == \E i, j \in 1..Len(writers) : writers[i] # writers[j]

\* C1: once set_pixels(f) has returned, for_each_pixel reports at every
\* coordinate (x, y) the value f(x, y), and reports every coordinate of the
\* frame, whichever workers wrote the pixels and in whatever order.
C1_SetPixelsThenForEach ==
    (Enumerating /\ ~fresh) =>
        /\ \A k \in 1..Len(visits) :
              visits[k][3] = Gen(TheOne(gen), visits[k][1], visits[k][2])
        /\ pos = Len(buffer) => VisitedCoords = Coords(width, height)

C1_Witness ==
    /\ Enumerating /\ ~fresh /\ pos = Len(buffer)
    /\ width = 2 /\ height = 2
    /\ gen = Some(<<1, 0, 0>>)
    /\ TwoWorkersWrote

\* C5: Frame::new(width, height, v) holds exactly width*height pixels, all v,
\* and for_each_pixel calls the visitor once for each (x, y) of
\* [0,width) x [0,height) and for no other coordinate.
C5_NewAndForEach ==
    /\ fresh => /\ Len(buffer) = width * height
                /\ \A i \in 1..Len(buffer) : buffer[i] = value
    /\ Enumerating =>
          /\ VisitedCoords \subseteq Coords(width, height)
          /\ \A j, k \in 1..Len(visits) :
                (visits[j][1] = visits[k][1] /\ visits[j][2] = visits[k][2]) => j = k
          /\ fresh => \A k \in 1..Len(visits) : visits[k][3] = value
          /\ pos = Len(buffer) => /\ Len(visits) = width * height
                                  /\ VisitedCoords = Coords(width, height)

C5_Witness ==
    /\ Enumerating /\ fresh /\ pos = Len(buffer)
    /\ width = 1 /\ height = 3
    /\ Len(visits) = 3

\* C9: in one set_pixels call no index is written twice or by two workers, the
\* sub-slices held by the workers and the pool never overlap, the generator is
\* called once per write, and when the call has returned every index of the
\* buffer has been written exactly once.
Overlap(r, q) == r[1] < q[2] /\ q[1] < r[2]
HeldBy(w) == claimed[w]
C9_DisjointCompleteWrites ==
    /\ Len(writeCount) = Len(buffer) \/ gen = None
    /\ \A i \in 1..Len(writeCount) :
          /\ writeCount[i] <= 1
          /\ Cardinality(writers[i]) = writeCount[i]
          /\ genCalls[i] = writeCount[i]
    /\ \A w1, w2 \in Workers : \A r \in HeldBy(w1), q \in HeldBy(w2) :
          w1 # w2 => ~Overlap(r, q)
    /\ \A w \in Workers : \A r \in HeldBy(w), q \in tasks : ~Overlap(r, q)
    /\ (gen # None /\ pc # "set_pixels") =>
          \A i \in 1..Len(buffer) : writeCount[i] = 1

C9_Witness ==
    /\ pc = "idle" /\ ~fresh
    /\ Len(buffer) = 4
    /\ TwoWorkersWrote
    /\ \A i \in 1..Len(buffer) : writeCount[i] = 1

\* ---- the conversions ----
ScannedIdx == IF kind = "Depthmap" THEN {i \in 1..Len(buffer) : buffer[i] < INFINITY}
              ELSE 1..Len(buffer)
ScannedVals == {buffer[i] : i \in ScannedIdx}
LoBound == CHOOSE m \in ScannedVals : \A v \in ScannedVals : m <= v
HiBound == CHOOSE m \in ScannedVals : \A v \in ScannedVals : v <= m
Started == pc # "idle"
ValueAt(x, y) == buffer[x * height + y + 1]
\* L is n/d (n >= 0, d > 0) rounded to the nearest integer, halves upwards
Nearest(L, n, d) == 2 * L * d - d <= 2 * n /\ 2 * n < 2 * L * d + d
Grey(s) == Pixel(s, s, s)

\* C2: a conversion that fails has constructed no raster image and has made
\* no set_pixel call.
C2_NoRasterBeforeFailure ==
    pc = "panicked" => (img = None /\ setCalls = <<>>)

\* C3: when the bound scan sees fewer than two values (Depthmap: no or one
\* non-sentinel pixel; Heatmap: no or one pixel) the conversion fails with the
\* degenerate-input error and no raster is created or returned.
C3_FewerThanTwoValues ==
    (Started /\ Cardinality(ScannedIdx) < 2) =>
        (pc = "panicked" /\ err = "degenerate" /\ img = None)

C3_Witness ==
    /\ kind = "Depthmap"
    /\ Len(buffer) = 3
    /\ Cardinality(ScannedIdx) = 1
    /\ pc = "panicked" /\ err = "degenerate"

\* C4: a frame whose scan sees two or more values that are all equal fails
\* with the degenerate-input error, not with another kind of failure.
C4_NoRangeIsDegenerate ==
    (pc \in {"panicked", "returned"}
        /\ Cardinality(ScannedIdx) >= 2 /\ Cardinality(ScannedVals) = 1) =>
        (pc = "panicked" /\ err = "degenerate")

\* C6: a conversion that completes created the raster with the frame's
\* (width, height) and called set_pixel exactly once for each coordinate of
\* [0,width) x [0,height), for no other coordinate, with the colour of the
\* frame value stored at that coordinate.
C6_SetPixelOncePerCoordinate ==
    pc = "returned" =>
        /\ img # None
        /\ TheOne(img).width = width /\ TheOne(img).height = height
        /\ Len(setCalls) = width * height
        /\ \A k \in 1..Len(setCalls) :
              /\ <<setCalls[k][1], setCalls[k][2]>> \in Coords(width, height)
              /\ setCalls[k][3] =
                    Colour(kind, ValueAt(setCalls[k][1], setCalls[k][2]),
                           TheOne(bounds), debug).px
        /\ \A c \in Coords(width, height) :
              Cardinality({k \in 1..Len(setCalls) :
                              <<setCalls[k][1], setCalls[k][2]>> = c}) = 1

C6_Witness ==
    /\ pc = "returned"
    /\ width = 2 /\ height = 3
    /\ Cardinality(ScannedVals) >= 3
    /\ Len(setCalls) = 6

\* C7: a Depthmap with at least two distinct finite values converts; every
\* sentinel pixel is blue and every finite pixel v is grey with level
\* round((1 - (v - min)/(max - min)) * 255) over the finite bounds, so min
\* gives 255 and max gives 0; the 2x2 frame [1, 2, INF, 3] gives
\* 255, 128, blue, 0 at (0,0), (0,1), (1,0), (1,1).
C7_DepthmapColours ==
    (kind = "Depthmap" /\ Cardinality(ScannedVals) >= 2) =>
        /\ pc # "panicked"
        /\ pc = "returned" =>
              /\ \A c \in Coords(width, height) :
                    LET v == ValueAt(c[1], c[2])
                        p == TheOne(img).data[c]
                    IN IF v = INFINITY THEN p = BLUE
                       ELSE /\ p = Grey(p.r)
                            /\ p.r \in 0..255
                            /\ Nearest(p.r, 255 * (HiBound - v), HiBound - LoBound)
                            /\ v = LoBound => p.r = 255
                            /\ v = HiBound => p.r = 0
              /\ (width = 2 /\ height = 2 /\ buffer = <<1, 2, INFINITY, 3>>) =>
                    /\ TheOne(img).data[<<0, 0>>] = Grey(255)
                    /\ TheOne(img).data[<<0, 1>>] = Grey(128)
                    /\ TheOne(img).data[<<1, 0>>] = BLUE
                    /\ TheOne(img).data[<<1, 1>>] = Grey(0)

C7_Witness ==
    /\ kind = "Depthmap" /\ pc = "returned"
    /\ width = 2 /\ height = 2
    /\ buffer = <<1, 2, INFINITY, 3>>

\* C8: a Heatmap with at least two distinct values converts; every pixel v is
\* (level, 0, 0) with level = round((v - min)/(max - min) * 255) in 0..255,
\* halves rounded away from zero, so min gives 0 and max gives 255; on a 3x1
\* frame holding 0, 10 and 20 the value 10 gives red 128.
C8_HeatmapColours ==
    (kind = "Heatmap" /\ Cardinality(ScannedVals) >= 2) =>
        /\ pc # "panicked"
        /\ pc = "returned" =>
              /\ \A c \in Coords(width, height) :
                    LET v == ValueAt(c[1], c[2])
                        p == TheOne(img).data[c]
                    IN /\ p = Pixel(p.r, 0, 0)
                       /\ p.r \in 0..255
                       /\ Nearest(p.r, 255 * (v - LoBound), HiBound - LoBound)
                       /\ v = LoBound => p.r = 0
                       /\ v = HiBound => p.r = 255
              /\ (width = 3 /\ height = 1 /\ ScannedVals = {0, 10, 20}) =>
                    \A c \in Coords(width, height) :
                       ValueAt(c[1], c[2]) = 10 => TheOne(img).data[c].r = 128

C8_Witness ==
    /\ kind = "Heatmap" /\ pc = "returned"
    /\ width = 3 /\ height = 1
    /\ ScannedVals = {0, 10, 20}

\* C10: every inv_lerp call made by a conversion satisfies x0 <= x <= x1, so
\* no conversion ends in the precondition panic.
C10_LerpPrecondition ==
    /\ \A c \in lerpCalls : c[2] <= c[1] /\ c[1] <= c[3]
    /\ err # "precondition"

C10_Witness ==
    /\ kind = "Depthmap" /\ pc = "returned"
    /\ \E i \in 1..Len(buffer) : buffer[i] = INFINITY
    /\ Cardinality(lerpCalls) >= 3

====
